---- MODULE Spec2Model ----
(***************************************************************************)
(* ec2-autostartstop/lambda_function.py: one invocation of lambda_handler. *)
(* The handler derives a default action from the JST hour, overrides it on *)
(* rest days, lists the instances tagged `autostartstop` and issues one    *)
(* start or stop call per instance whose tag agrees with the default.      *)
(***************************************************************************)
EXTENDS Integers, Sequences, FiniteSets, TLC

VARIABLES
    clock,           \* UTC wall clock, whole hours: toordinal() * 24 + hour
    hostOffset,      \* UTC offset (hours) of the host's local time zone
    event,           \* the event argument of lambda_handler
    fleet,           \* provider side: autostartstop tag value of each instance
    pc,              \* position of the handler
    ticks,           \* hours the clock advanced during the invocation
    hour,            \* determine_action's local hour
    default_action,  \* lambda_handler's local default_action
    today,           \* is_japan_holiday's local today (ordinal, JST)
    holidays,        \* is_japan_holiday's local holidays (a list of keys)
    fetch,           \* what the holiday endpoint answered
    rest,            \* outcome of the is_japan_holiday() call
    target,          \* lambda_handler's local target
    listing,         \* outcome of describe_instances
    instances_info,  \* manage_ec2_instances' local instances_info
    idx,             \* loop position in instances_info (1-based)
    cmds,            \* start/stop calls made on ec2_client, in order
    result,          \* "running", "returned" or "raised"
    error            \* exception logged by the handler's except clause

vars == <<clock, hostOffset, hour, event, fleet, pc, ticks, default_action, today,
          holidays, fetch, rest, target, listing, instances_info, idx, cmds,
          result, error>>

----------------------------------------------------------------------------
(* Bounds of the model *)

\* days of the calendar window the invocation may start in
NumDays == 5
\* hour boundaries the clock may cross while the handler runs
MaxTicks == 1
\* instances the provider holds
MaxInstances == 2

None == "<None>"
Absent == "<absent>"

----------------------------------------------------------------------------
(* datetime *)

\* timezone(timedelta(hours=9))
JST == 9

\* datetime.now(tz): the UTC clock shifted by the zone's offset
Now(tz) == clock + tz
HourOf(t) == t % 24
OrdinalOf(t) == t \div 24

\* date.weekday(): Monday is 0, Sunday is 6
Weekday(ord) == (ord + 6) % 7

\* datetime's _ord2ymd: proleptic Gregorian ordinal -> (year, month, day)
Ord2ymd(ord) ==
    LET DaysBeforeMonth == <<0, 31, 59, 90, 120, 151, 181, 212, 243, 273, 304, 334>>
        DaysInMonth == <<31, 28, 31, 30, 31, 30, 31, 31, 30, 31, 30, 31>>
        n0 == ord - 1
        n400 == n0 \div 146097
        r400 == n0 % 146097
        n100 == r400 \div 36524
        r100 == r400 % 36524
        n4 == r100 \div 1461
        r4 == r100 % 1461
        n1 == r4 \div 365
        n == r4 % 365
        year == n400 * 400 + 1 + n100 * 100 + n4 * 4 + n1
        leap == n1 = 3 /\ (n4 # 24 \/ n100 = 3)
        m0 == (n + 50) \div 32
        p0 == DaysBeforeMonth[m0] + (IF m0 > 2 /\ leap THEN 1 ELSE 0)
        month == IF p0 > n THEN m0 - 1 ELSE m0
        preceding == IF p0 > n
                     THEN p0 - (DaysInMonth[month] + (IF month = 2 /\ leap THEN 1 ELSE 0))
                     ELSE p0
    IN  IF n1 = 4 \/ n100 = 4
        THEN [year |-> year - 1, month |-> 12, day |-> 31]
        ELSE [year |-> year, month |-> month, day |-> n - preceding + 1]

ZeroPad2(n) == IF n < 10 THEN "0" \o ToString(n) ELSE ToString(n)

\* today.strftime('%Y-%m-%d')
Strftime(ord) ==
    LET d == Ord2ymd(ord)
    IN  ToString(d.year) \o "-" \o ZeroPad2(d.month) \o "-" \o ZeroPad2(d.day)

----------------------------------------------------------------------------
(* Inputs *)

\* days the invocation may start on: Fri 2022-12-30, Sat 2022-12-31,
\* Sun 2023-01-01 (holiday), Mon 2023-01-02 (holiday), Tue 2023-01-03, ...
Window == 738519 .. (738519 + NumDays - 1)

\* UTC clock at which the JST wall clock shows hour h on day `ord`
ClockAt(ord, h) == ord * 24 + h - JST

CalendarClocks == {ClockAt(d, h) : d \in Window, h \in 0 .. 23}

\* Friday 10:00, 17:00 and 20:00, Saturday 10:00, holiday Monday 10:00 (JST)
SampleClocks == {ClockAt(738519, 10), ClockAt(738519, 17), ClockAt(738519, 20),
                 ClockAt(738520, 10), ClockAt(738522, 10)}

HostOffsets == {0, -8}

\* lambda_handler(event, context): None, {}, {"target": t}
Events == {[dict |-> FALSE, target |-> Absent], [dict |-> TRUE, target |-> Absent]}
          \cup {[dict |-> TRUE, target |-> t] : t \in {"ec2", "rds", "all"}}

\* values of the autostartstop tag on the provider's instances
RawTags == {"true", "start", "stop", "auto", "True", "random", ""}

FleetsOver(tags, n) == UNION {[1 .. k -> tags] : k \in 0 .. n}

Fleets(n) == FleetsOver(RawTags, n)

\* no instance, or one instance with any tag value
SingleFleets == {<<>>} \cup {<<t>> : t \in RawTags}

\* date.json of holidays-jp for a year, abridged
HolidayData(year) ==
    CASE year = 2022 -> <<"2022-11-03", "2022-11-23">>
      [] year = 2023 -> <<"2023-01-01", "2023-01-02", "2023-01-09">>
      [] OTHER -> <<ToString(year) \o "-01-01">>

\* the same dates written without zero padding
UnpaddedData(year) ==
    CASE year = 2023 -> <<"2023-1-1", "2023-1-2", "2023-1-9">>
      [] OTHER -> <<ToString(year) \o "-1-1">>

\* what urlopen(holiday_url) and json.loads may produce for a year
Responses(year) ==
    {[kind |-> k, keys |-> <<>>] : k \in {"URLError", "JSONDecodeError", "array"}}
    \cup {[kind |-> "object", keys |-> ks] :
             ks \in {<<>>, HolidayData(year), UnpaddedData(year)}}

----------------------------------------------------------------------------
(* Functions of lambda_function.py *)

Elems(s) == {s[i] : i \in 1 .. Len(s)}


\* variant: the hour of datetime.now() in the host's zone
ReadHourHost == HourOf(Now(hostOffset))

\* line 46: datetime.now(JST).hour
ReadHour == HourOf(Now(JST))

\* line 47: 'start' if 8 <= hour < 18 else 'stop'
ActionForHour(h) == IF 8 <= h /\ h < 18 THEN "start" ELSE "stop"

\* variant: without the try/except of lines 70-81
GetJapanHolidaysRaising(resp) ==
    IF resp.kind = "object"
    THEN [raised |-> None, value |-> resp.keys]
    ELSE [raised |-> resp.kind, value |-> <<>>]

\* get_japan_holidays(): list(holidays_data.keys()), or [] on any exception
\* (urlopen fails, json.loads fails, the JSON value has no keys())
GetJapanHolidays(resp) ==
    IF resp.kind = "object"
    THEN [raised |-> None, value |-> resp.keys]
    ELSE [raised |-> None, value |-> <<>>]

\* holidays[key] with holidays a list and key a str:
\* "list indices must be integers or slices, not str"
ListGetItemStr(list, key) == [raised |-> "TypeError", value |-> None]

\* variant: today.weekday() >= 6
IsWeekendSundayOnly(ord) == Weekday(ord) >= 6

\* today.weekday() >= 5
IsWeekend(ord) == Weekday(ord) >= 5

\* is_japan_holiday() from line 56 on, given today and holidays
IsJapanHoliday(ord, hols) ==
    IF Strftime(ord) \in Elems(hols)
    THEN LET label == ListGetItemStr(hols, Strftime(ord))
         IN  IF label.raised # None
             THEN [raised |-> label.raised, value |-> FALSE]
             ELSE [raised |-> None, value |-> TRUE]
    ELSE IF IsWeekend(ord)
    THEN [raised |-> None, value |-> TRUE]
    ELSE [raised |-> None, value |-> FALSE]

\* variant: a capitalised "True" accepted as well
ShouldStartAnyCase(tag_value, action) ==
    IF action = "start"
    THEN tag_value \in {"true", "start", "auto", "True"}
    ELSE FALSE

\* should_start(tag_value, default_action)
ShouldStart(tag_value, action) ==
    IF action = "start"
    THEN tag_value \in {"true", "start", "auto"}
    ELSE FALSE

\* variant: the tag consulted without regard to the default action
ShouldStopAnyPhase(tag_value, action) == tag_value \in {"true", "stop", "auto"}

\* should_stop(tag_value, default_action)
ShouldStop(tag_value, action) ==
    IF action = "stop"
    THEN tag_value \in {"true", "stop", "auto"}
    ELSE FALSE

\* variant: without the try/except of lines 105-118
GetInstancesRaising(fl, ok) ==
    IF ok
    THEN [raised |-> None,
          value |-> SelectSeq([i \in 1 .. Len(fl) |-> [id |-> i, tag |-> fl[i]]],
                              LAMBDA r : r.tag # "")]
    ELSE [raised |-> "ClientError", value |-> <<>>]

\* get_ec2_instances_with_tag('autostartstop'): (InstanceId, tag_value) of the
\* instances whose tag value is truthy, or [] when describe_instances raises
GetEc2InstancesWithTag(fl, ok) ==
    IF ok
    THEN [raised |-> None,
          value |-> SelectSeq([i \in 1 .. Len(fl) |-> [id |-> i, tag |-> fl[i]]],
                              LAMBDA r : r.tag # "")]
    ELSE [raised |-> None, value |-> <<>>]

\* variant: without the try/except of lines 142-146 and 150-154
CallInstancesRaising(ok) == IF ok THEN None ELSE "ClientError"

\* start_instances / stop_instances: the client call inside try/except;
\* the exception that leaves the function, given whether the call succeeds
CallInstances(ok) == None

----------------------------------------------------------------------------
(* lambda_handler, step by step *)

Init0 ==
    /\ event \in Events
    /\ pc = "determine"
    /\ ticks = 0
    /\ hour = 0
    /\ default_action = None
    /\ today = 0
    /\ holidays = <<>>
    /\ fetch = None
    /\ rest = None
    /\ target = None
    /\ listing = None
    /\ instances_info = <<>>
    /\ idx = 0
    /\ cmds = <<>>
    /\ result = "running"
    /\ error = None

\* any hour of the calendar window, any host zone, at most one instance
Init ==
    /\ Init0
    /\ clock \in CalendarClocks
    /\ hostOffset \in HostOffsets
    /\ fleet \in SingleFleets

\* a few hours of the window, a host on UTC, up to MaxInstances instances
FleetInit ==
    /\ Init0
    /\ clock \in SampleClocks
    /\ hostOffset = 0
    /\ fleet \in Fleets(MaxInstances)

\* variant: the except clause re-raises
ExceptReraise(e) ==
    /\ pc' = "done"
    /\ result' = "raised"
    /\ error' = e

\* lines 39-40: except Exception as e: logger.error(...); the handler returns
Except(e) ==
    /\ pc' = "done"
    /\ result' = "returned"
    /\ error' = e

\* the handler runs off its end (or manage_ec2_instances returns into it)
Return ==
    /\ pc' = "done"
    /\ result' = "returned"
    /\ error' = error

\* the wall clock passes an hour boundary between two datetime.now() calls
Tick ==
    /\ pc \in {"today", "fetch"}
    /\ ticks < MaxTicks
    /\ clock' = clock + 1
    /\ ticks' = ticks + 1
    /\ UNCHANGED <<hostOffset, hour, event, fleet, pc, default_action, today, holidays,
                   fetch, rest, target, listing, instances_info, idx, cmds,
                   result, error>>

\* line 26: default_action = determine_action()
Determine ==
    /\ pc = "determine"
    /\ hour' = ReadHour
    /\ default_action' = ActionForHour(ReadHour)
    /\ pc' = "today"
    /\ UNCHANGED <<clock, hostOffset, event, fleet, ticks, today, holidays, fetch,
                   rest, target, listing, instances_info, idx, cmds, result, error>>

\* line 50: today = datetime.now(JST)
ReadToday ==
    /\ pc = "today"
    /\ today' = OrdinalOf(Now(JST))
    /\ pc' = "fetch"
    /\ UNCHANGED <<clock, hostOffset, hour, event, fleet, ticks, default_action, holidays,
                   fetch, rest, target, listing, instances_info, idx, cmds, result,
                   error>>

\* line 53: holidays = get_japan_holidays(), for the year of datetime.now(JST)
FetchHolidays ==
    /\ pc = "fetch"
    /\ \E resp \in Responses(Ord2ymd(OrdinalOf(Now(JST))).year) :
          LET r == GetJapanHolidays(resp)
          IN  /\ fetch' = resp.kind
              /\ IF r.raised # None
                 THEN /\ Except(r.raised)
                      /\ UNCHANGED holidays
                 ELSE /\ holidays' = r.value
                      /\ pc' = "check"
                      /\ UNCHANGED <<result, error>>
    /\ UNCHANGED <<clock, hostOffset, hour, event, fleet, ticks, default_action, today,
                   rest, target, listing, instances_info, idx, cmds>>

\* lines 56-64 and 29-31: the rest-day test and the override of default_action
CheckHoliday ==
    /\ pc = "check"
    /\ LET r == IsJapanHoliday(today, holidays)
       IN  IF r.raised # None
           THEN /\ Except(r.raised)
                /\ rest' = "raised"
                /\ UNCHANGED default_action
           ELSE /\ rest' = IF r.value THEN "true" ELSE "false"
                /\ default_action' = IF r.value THEN "stop" ELSE default_action
                /\ pc' = "target"
                /\ UNCHANGED <<result, error>>
    /\ UNCHANGED <<clock, hostOffset, hour, event, fleet, ticks, today, holidays, fetch,
                   target, listing, instances_info, idx, cmds>>

\* event.get('target', 'all')
EventGetTarget(ev) ==
    IF ~ev.dict
    THEN [raised |-> "AttributeError", value |-> None]
    ELSE [raised |-> None,
          value |-> IF ev.target = Absent THEN "all" ELSE ev.target]

\* line 37: target in ['ec2', 'all']
TargetsEc2(t) == t \in {"ec2", "all"}

\* lines 34-38: read the target and enter manage_ec2_instances or fall through
ReadTarget ==
    /\ pc = "target"
    /\ LET r == EventGetTarget(event)
       IN  IF r.raised # None
           THEN /\ Except(r.raised)
                /\ UNCHANGED target
           ELSE /\ target' = r.value
                /\ IF TargetsEc2(r.value)
                   THEN /\ pc' = "describe"
                        /\ UNCHANGED <<result, error>>
                   ELSE Return
    /\ UNCHANGED <<clock, hostOffset, hour, event, fleet, ticks, default_action, today,
                   holidays, fetch, rest, listing, instances_info, idx, cmds>>

\* lines 85-88: list the tagged instances; return when there are none
Describe ==
    /\ pc = "describe"
    /\ \E ok \in BOOLEAN :
          LET r == GetEc2InstancesWithTag(fleet, ok)
          IN  /\ listing' = IF ok THEN "ok" ELSE "error"
              /\ IF r.raised # None
                 THEN /\ Except(r.raised)
                      /\ UNCHANGED <<instances_info, idx>>
                 ELSE /\ instances_info' = r.value
                      /\ IF r.value = <<>>
                         THEN Return /\ UNCHANGED idx
                         ELSE /\ pc' = "loop"
                              /\ idx' = 1
                              /\ UNCHANGED <<result, error>>
    /\ UNCHANGED <<clock, hostOffset, hour, event, fleet, ticks, default_action, today,
                   holidays, fetch, rest, target, cmds>>

\* where the loop of line 90 goes after the instance at idx
NextInstance ==
    IF idx = Len(instances_info)
    THEN Return /\ UNCHANGED idx
    ELSE /\ idx' = idx + 1
         /\ UNCHANGED <<pc, result, error>>

\* lines 92-95: one iteration that calls start_instances or stop_instances
Dispatch ==
    /\ pc = "loop"
    /\ LET inst == instances_info[idx]
           kind == IF ShouldStart(inst.tag, default_action) THEN "start"
                   ELSE IF ShouldStop(inst.tag, default_action) THEN "stop"
                   ELSE None
       IN  /\ kind # None
           /\ \E ok \in BOOLEAN :
                 /\ cmds' = Append(cmds, [id |-> inst.id, kind |-> kind, ok |-> ok])
                 /\ IF CallInstances(ok) # None
                    THEN Except(CallInstances(ok)) /\ UNCHANGED idx
                    ELSE NextInstance
    /\ UNCHANGED <<clock, hostOffset, hour, event, fleet, ticks, default_action, today,
                   holidays, fetch, rest, target, listing, instances_info>>

\* lines 96-97: one iteration that only logs
Skip ==
    /\ pc = "loop"
    /\ LET inst == instances_info[idx]
       IN  /\ ~ShouldStart(inst.tag, default_action)
           /\ ~ShouldStop(inst.tag, default_action)
    /\ NextInstance
    /\ UNCHANGED <<clock, hostOffset, hour, event, fleet, ticks, default_action, today,
                   holidays, fetch, rest, target, listing, instances_info, cmds>>

\* as FleetInit, with tag values that are acted on, skipped and filtered out
LiveInit ==
    /\ Init0
    /\ clock \in SampleClocks
    /\ hostOffset = 0
    /\ fleet \in FleetsOver({"true", "random", ""}, MaxInstances)

Next ==
    \/ Tick
    \/ Determine
    \/ ReadToday
    \/ FetchHolidays
    \/ CheckHoliday
    \/ ReadTarget
    \/ Describe
    \/ Dispatch
    \/ Skip

Spec == Init /\ [][Next]_vars

FleetSpec == FleetInit /\ [][Next]_vars

\* the handler is sequential code: a step that can be taken is taken
LiveSpec == LiveInit /\ [][Next]_vars /\ WF_vars(Next)

TypeOK ==
    /\ pc \in {"determine", "today", "fetch", "check", "target", "describe",
                "loop", "done"}
    /\ result \in {"running", "returned", "raised"}
    /\ default_action \in {None, "start", "stop"}
    /\ ticks \in 0 .. MaxTicks

----------------------------------------------------------------------------
(* Vocabulary of the properties *)

\* the policy table of resolveInstanceAction
PolicyTable(tag, action) ==
    CASE action = "start" /\ tag \in {"true", "start", "auto"} -> "start"
      [] action = "stop" /\ tag \in {"true", "stop", "auto"} -> "stop"
      [] OTHER -> None

\* instances of instances_info the loop has finished with
Processed == IF pc = "loop" THEN idx - 1 ELSE idx

\* kinds of the commands issued to instance id
KindsFor(id) == {cmds[j].kind : j \in {j \in 1 .. Len(cmds) : cmds[j].id = id}}

\* position of instance id in instances_info
PosOf(id) == CHOOSE k \in 1 .. Len(instances_info) : instances_info[k].id = id

SatOrSun(ord) == ord % 7 \in {0, 6}

\* the date as the holiday endpoint writes it, for the days of the window
IsoDate(ord) ==
    CASE ord = 738519 -> "2022-12-30"
      [] ord = 738520 -> "2022-12-31"
      [] ord = 738521 -> "2023-01-01"
      [] ord = 738522 -> "2023-01-02"
      [] ord = 738523 -> "2023-01-03"
      [] ord = 738524 -> "2023-01-04"
      [] ord = 738525 -> "2023-01-05"
      [] OTHER -> "?"

Listed(date) == date \in Elems(holidays)

FetchFailed == fetch \in {"URLError", "JSONDecodeError", "array"}

\* the event selects the ec2 branch
SelectsEc2 ==
    /\ event.dict
    /\ event.target \in {Absent, "ec2", "all"}

----------------------------------------------------------------------------
(* C1 *)

----------------------------------------------------------------------------
(* C2 *)

----------------------------------------------------------------------------
(* C3 *)

\* C3: once the handler has read today's date and the holiday list, if that
\* date (or the date the clock shows now) is a Saturday, a Sunday or a listed
\* holiday, no start command has been issued.
C3_NoStartOnRestDay ==
    LET RestDay(ord) == SatOrSun(ord) \/ Listed(IsoDate(ord))
    IN  (pc \notin {"determine", "today", "fetch"}
         /\ (RestDay(today) \/ RestDay((clock + 9) \div 24)))
        => \A j \in 1 .. Len(cmds) : cmds[j].kind # "start"

C3_Witness ==
    /\ pc = "done"
    /\ today = 738520
    /\ hour = 10
    /\ fleet = <<"start">>
    /\ listing = "ok"
    /\ instances_info # <<>>
    /\ cmds = <<>>

----------------------------------------------------------------------------
(* C4 *)

\* C4: when the fetch succeeded and today's date is one of the fetched
\* holiday dates, is_japan_holiday returned true, the default action is
\* stop, and (the event selecting ec2) the instances were listed and every
\* listed instance tagged "true", "stop" or "auto" was sent a stop command.
C4_HolidayShutdown ==
    (pc = "done" /\ fetch = "object" /\ Listed(IsoDate(today))) =>
        /\ rest = "true"
        /\ default_action = "stop"
        /\ SelectsEc2 =>
              /\ listing # None
              /\ listing = "ok" =>
                    \A i \in 1 .. Len(fleet) :
                        fleet[i] \in {"true", "stop", "auto"} => "stop" \in KindsFor(i)

----------------------------------------------------------------------------
(* C5 *)

----------------------------------------------------------------------------
(* C6 *)

\* C6: when the loop has run to its end, every listed instance whose resolved
\* action is start or stop has had that command issued, whichever of the
\* calls failed, and no exception reached the handler.
C6_FailuresDoNotStopLoop ==
    (pc = "done" /\ instances_info # <<>>) =>
        /\ error = None
        /\ \A k \in 1 .. Len(instances_info) :
              LET inst == instances_info[k]
                  want == PolicyTable(inst.tag, default_action)
              IN  want # None => want \in KindsFor(inst.id)

C6_Witness ==
    /\ pc = "done"
    /\ Len(instances_info) = 2
    /\ Len(cmds) = 2
    /\ ~cmds[1].ok
    /\ cmds[1].id = instances_info[1].id
    /\ cmds[2].ok
    /\ cmds[2].id = instances_info[2].id

----------------------------------------------------------------------------
(* C7 *)

\* C7: when describe_instances failed, instances_info is empty, no start or
\* stop command was issued and the handler has returned without an exception
\* having reached it.
C7_DescribeFailureIsNoOp ==
    listing = "error" =>
        /\ instances_info = <<>>
        /\ cmds = <<>>
        /\ pc = "done"
        /\ result = "returned"
        /\ error = None

C7_Witness ==
    /\ listing = "error"
    /\ pc = "done"
    /\ result = "returned"
    /\ Len(fleet) = 2
    /\ fleet[1] = "true"
    /\ cmds = <<>>

----------------------------------------------------------------------------
(* C8 *)

\* C8: every invocation ends, and ends by returning: the handler reaches its
\* end with result "returned", never "raised".
C8_AlwaysReturns == <>(pc = "done" /\ result = "returned")

C8_Witness ==
    /\ pc = "done"
    /\ result = "returned"
    /\ error = "AttributeError"
    /\ ~event.dict

----------------------------------------------------------------------------
(* C9 *)

\* C9: at the end of the invocation, an absent target reads as "all"; with
\* target "ec2" or "all" the instances were listed and every listed instance
\* with a resolved action was sent it; with target "rds" the handler returned
\* without listing and without issuing a command.
C9_TargetSelects ==
    (pc = "done" /\ event.dict) =>
        /\ event.target = Absent => target = "all"
        /\ event.target \in {Absent, "ec2", "all"} =>
              /\ listing # None
              /\ \A k \in 1 .. Len(instances_info) :
                    LET inst == instances_info[k]
                        want == PolicyTable(inst.tag, default_action)
                    IN  want # None => want \in KindsFor(inst.id)
        /\ event.target = "rds" =>
              /\ result = "returned"
              /\ listing = None
              /\ cmds = <<>>

----------------------------------------------------------------------------
(* C10 *)

\* C10: every command issued so far is of the kind of the default action, no
\* instance was sent two commands, and the commands were issued in the order
\* in which the instances were listed.
C10_OneKindInOrder ==
    /\ \A j \in 1 .. Len(cmds) : cmds[j].kind = default_action
    /\ \A a, b \in 1 .. Len(cmds) :
          a < b => PosOf(cmds[a].id) < PosOf(cmds[b].id)

C10_Witness ==
    /\ pc = "done"
    /\ default_action = "stop"
    /\ Len(instances_info) = 2
    /\ Len(cmds) = 2
    /\ cmds[1].kind = "stop"
    /\ cmds[2].kind = "stop"
    /\ cmds[1].id = instances_info[1].id
    /\ cmds[2].id = instances_info[2].id

====
